---- MODULE Spec2Model ----
(***************************************************************************)
(* A model of the analysis notebooks of physics-ai-bridging-the-gap.       *)
(*                                                                         *)
(* Every notebook runs the same pipeline of scikit-learn calls over a      *)
(* synthetic table: train_test_split, StandardScaler, PCA, KMeans,         *)
(* RandomForestClassifier, classification_report and confusion_matrix.     *)
(* The model has one state machine per level:                              *)
(*   Spec      the notebook, statement by statement (data flow, errors);   *)
(*   SpecKM    KMeans.fit_predict / predict on a numeric matrix;           *)
(*   SpecRF    RandomForestClassifier.fit / predict on a numeric matrix;   *)
(*   SpecEval  classification_report / confusion_matrix on label vectors.  *)
(* The meaning of a library call is the library's: each operator below     *)
(* models the call named in its comment.                                   *)
(***************************************************************************)
EXTENDS Integers, Sequences, FiniteSets, TLC

(***************************************************************************)
(* Bounds of the model.                                                    *)
(***************************************************************************)
\* n_samples of the generated table ranges over 0..MaxSamples
MaxSamples == 5
\* random_state of train_test_split ranges over 0..MaxSeed
MaxSeed == 23

(***************************************************************************)
(* Program constants.                                                      *)
(***************************************************************************)
\* test_size=0.3, in tenths
TestSizeTenths == 3
\* PCA(n_components=2)
NComponents == 2
\* KMeans(n_clusters=3, ...)
NClusters == 3
\* random_state=42 of KMeans and RandomForestClassifier
RandomState == 42
\* the six feature columns of the particle table
NumFeatures == 6

(***************************************************************************)
(* Generic helpers.                                                        *)
(***************************************************************************)
Range(s) == {s[i] : i \in 1..Len(s)}

RECURSIVE SeqSum(_)
SeqSum(s) == IF s = <<>> THEN 0 ELSE Head(s) + SeqSum(Tail(s))

RECURSIVE Factorial(_)
Factorial(n) == IF n <= 1 THEN 1 ELSE n * Factorial(n - 1)

\* s without its i-th element
RemoveAt(s, i) == [j \in 1..(Len(s) - 1) |-> IF j < i THEN s[j] ELSE s[j + 1]]

\* the elements of a finite set of integers in ascending order (np.unique)
RECURSIVE SortedSeq(_)
SortedSeq(S) ==
    IF S = {} THEN <<>>
    ELSE LET m == CHOOSE x \in S : \A z \in S : x <= z
         IN <<m>> \o SortedSeq(S \ {m})

None == [set |-> FALSE]
NoError == [raised |-> FALSE]
ValueError(stage) == [raised |-> TRUE, type |-> "ValueError", stage |-> stage]

(***************************************************************************)
(* The notebooks.  "particle" stands for the three notebooks that run the  *)
(* PCA / KMeans cells and report three class names (particle, galaxy,      *)
(* materials); "exoplanet" for the pipeline that goes from the scaler      *)
(* straight to the classifier and reports two class names.                 *)
(***************************************************************************)
Notebooks == {"particle", "exoplanet"}

\* len(target_names) of the notebook's classification_report call
TargetNames(nb) == IF nb = "exoplanet" THEN 2 ELSE 3

\* whether the notebook has the PCA and KMeans cells
HasProjection(nb) == nb # "exoplanet"

VARIABLES
    notebook,           \* which notebook runs
    y,                  \* the label column; sample i is row i of X
    seed,               \* random_state of train_test_split
    pc,                 \* the statement to run next
    err,                \* the exception that stopped the run
    calls,              \* the library calls made so far, in order
    np_random,          \* draws taken from numpy's global generator
    X_train, X_test,    \* row ids (the DataFrame index) of each subset
    y_train, y_test,    \* [index, values] of each label subset
    scaler,             \* the StandardScaler object
    X_train_scaled, X_test_scaled,
    pca,                \* the PCA object
    X_train_pca, X_test_pca,
    kmeans,             \* the KMeans object
    y_train_clusters, y_test_clusters,
    clf,                \* the RandomForestClassifier object
    y_pred,             \* [of, values]: the matrix predicted on, the labels
    report,             \* result of classification_report
    cm,                 \* result of confusion_matrix
    feature_importances

pipeVars == <<notebook, y, seed, pc, err, calls, np_random, X_train, X_test,
              y_train, y_test, scaler, X_train_scaled, X_test_scaled, pca,
              X_train_pca, X_test_pca, kmeans, y_train_clusters,
              y_test_clusters, clf, y_pred, report, cm, feature_importances>>

VARIABLES
    km_X,               \* the matrix given to KMeans.fit_predict
    km_k,               \* n_clusters
    km_max_iter,        \* max_iter
    km_init,            \* rows picked as initial centers (k-means++)
    km_phase,           \* "new", "lloyd", "estep", "fitted", "failed"
    km_centers,         \* the k centers, each coordinate times CenterScale
    km_labels,          \* labels of the current iteration
    km_labels_old,      \* labels of the previous iteration
    km_n_iter,          \* iterations run
    km_strict,          \* strict_convergence
    km_hist,            \* per iteration: its labels and whether the centers moved
    km_pred,            \* kmeans.predict on the training matrix
    km_npredict,        \* number of calls of kmeans.predict so far
    km_last             \* the matrix and the outcome of the last call of predict

kmCallVars == <<km_npredict, km_last>>

kmAlgVars == <<km_X, km_k, km_max_iter, km_init, km_phase, km_centers, km_labels,
               km_labels_old, km_n_iter, km_strict, km_hist, km_pred, kmCallVars>>

VARIABLES
    rf_X,               \* the feature column given to RandomForestClassifier.fit
    rf_y,               \* the labels given to fit
    rf_phase,           \* "new", "fitted", "failed", "predicted"
    rf_err,             \* the exception raised by fit
    rf_classes,         \* classes_
    rf_estimators,      \* estimators_: the fitted trees
    rf_x,               \* the row given to predict
    rf_pred,            \* the label predict returned for it
    rf_importances      \* what clf.feature_importances_ returned

rfAlgVars == <<rf_X, rf_y, rf_phase, rf_err, rf_classes, rf_estimators, rf_x, rf_pred,
               rf_importances>>

VARIABLES
    ev_true,            \* y_true
    ev_pred,            \* y_pred
    ev_names,           \* len(target_names)
    ev_report,          \* what classification_report returned or raised
    ev_cm               \* what confusion_matrix returned or raised

evAlgVars == <<ev_true, ev_pred, ev_names, ev_report, ev_cm>>

VARIABLES
    par_X,              \* the rows given to one pass of the threaded Lloyd iteration
    par_threads,        \* n_threads
    par_centers,        \* centers_old
    par_next,           \* per thread: how many of its chunks it has processed
    par_buf,            \* per thread: centers_new_chunk and weight_in_clusters_chunk
    par_labels,         \* labels, written chunk by chunk
    par_sum,            \* centers_new before averaging
    par_w,              \* weight_in_clusters
    par_reduced,        \* the threads that have added their buffers
    par_phase,          \* "chunks", "averaged", "done"
    par_new,            \* centers_new after averaging
    par_x,              \* a row labelled with the new centers
    par_pred            \* its label

parVars == <<par_X, par_threads, par_centers, par_next, par_buf, par_labels, par_sum,
             par_w, par_reduced, par_phase, par_new, par_x, par_pred>>

VARIABLES
    rp_n,               \* number of samples of the dataset
    rp_seed,            \* random_state of train_test_split
    rp_solver,          \* the SVD solver PCA picks: "full" or "randomized"
    rp_run,             \* 1 or 2: which run of the pipeline is under way
    rp_pc,              \* the statement the run executes next
    rp_global,          \* numpy's global generator: its seed and how much was drawn
    rp_out,             \* per run: what each statement computed, by its inputs
    rp_draws            \* per run: which generator each statement drew from

rpVars == <<rp_n, rp_seed, rp_solver, rp_run, rp_pc, rp_global, rp_out, rp_draws>>

VARIABLES
    sc_X,               \* the matrix given to StandardScaler.fit_transform
    sc_phase,           \* "new", "fitted", "transformed"
    sc_err,             \* the exception fit raised
    sc_scaler,          \* mean_, var_ and scale_ of the fitted scaler
    sc_out              \* the transformed matrix

scVars == <<sc_X, sc_phase, sc_err, sc_scaler, sc_out>>

algVars == <<kmAlgVars, rfAlgVars, evAlgVars, parVars, rpVars, scVars>>

vars == <<pipeVars, algVars>>

(***************************************************************************)
(* train_test_split(X, y, test_size=0.3, random_state=seed)                *)
(***************************************************************************)
\* n_test = ceil(test_size * n_samples)
NTest(n) == (TestSizeTenths * n + 9) \div 10
\* train_size=None: the complement
NTrain(n) == n - NTest(n)

\* RandomState(seed).permutation(n): the generator is a fixed bijection from
\* its seed to the orderings it can produce; here the seed is read as the
\* Lehmer code of the ordering, so that seeds 0..n!-1 give every ordering.
RECURSIVE PermFrom(_, _)
PermFrom(code, avail) ==
    IF avail = <<>> THEN <<>>
    ELSE LET k == (code % Len(avail)) + 1
         IN <<avail[k]>> \o PermFrom(code \div Len(avail), RemoveAt(avail, k))

Permutation(sd, n) == PermFrom(sd % Factorial(n), [i \in 1..n |-> i])

\* ind_test = permutation[:n_test]
TestIndices(sd, n) == SubSeq(Permutation(sd, n), 1, NTest(n))
\* a slice that starts one position early
TrainIndicesFromTestEnd(sd, n) == SubSeq(Permutation(sd, n), NTest(n), NTest(n) + NTrain(n))

\* ind_train = permutation[n_test:(n_test + n_train)]
TrainIndices(sd, n) == SubSeq(Permutation(sd, n), NTest(n) + 1, NTest(n) + NTrain(n))

\* the first rows of the label column, whatever the sampled indices are
TakeLabelsByPosition(lbl, idx) == [index |-> idx, values |-> SubSeq(lbl, 1, Len(idx))]

\* _safe_indexing(a, indices) on a pandas Series: the index travels with the values
TakeLabels(lbl, idx) == [index |-> idx, values |-> [i \in 1..Len(idx) |-> lbl[idx[i]]]]

(***************************************************************************)
(* StandardScaler.  The feature values of a row are not interpreted at     *)
(* this level: a fitted object is identified by the matrix its mean_ and   *)
(* scale_ were computed from, a transformed matrix by its rows and the     *)
(* fitted object applied to them.                                          *)
(***************************************************************************)
\* StandardScaler()
NewScaler == [fitted |-> FALSE, fits |-> 0]

\* scaler.fit(M): mean_ and scale_ are recomputed from M
StandardScalerFit(obj, M) == [fitted |-> TRUE, fits |-> obj.fits + 1, fittedOn |-> M]

\* a transform that refits on the matrix it is given (fit_transform on the test set)
StandardScalerTransformRefit(obj, M) ==
    LET o == StandardScalerFit(obj, M)
    IN [object |-> o, out |-> [rows |-> M, scaledBy |-> o.fittedOn]]

\* scaler.transform(M): (M - mean_) / scale_, row by row; the object is only read
StandardScalerTransform(obj, M) ==
    [object |-> obj, out |-> [rows |-> M, scaledBy |-> obj.fittedOn]]

\* scaler.fit_transform(M) = scaler.fit(M).transform(M)
StandardScalerFitTransform(obj, M) == StandardScalerTransform(StandardScalerFit(obj, M), M)

(***************************************************************************)
(* PCA(n_components=2), with the same reading of fitted objects.           *)
(***************************************************************************)
NewPCA == [fitted |-> FALSE, fits |-> 0]

\* n_components must lie in [0, min(n_samples, n_features)]
PCAValid(M) == NComponents <= Len(M.rows) /\ NComponents <= NumFeatures

PCAFit(obj, M) == [fitted |-> TRUE, fits |-> obj.fits + 1, fittedOn |-> M]

PCATransform(obj, M) ==
    [object |-> obj, out |-> [matrix |-> M, projectedBy |-> obj.fittedOn]]

PCAFitTransform(obj, M) == PCATransform(PCAFit(obj, M), M)

(***************************************************************************)
(* KMeans(n_clusters=3, random_state=42) as the notebook uses it; the      *)
(* algorithm itself is SpecKM below.                                       *)
(***************************************************************************)
NewKMeans == [fitted |-> FALSE]

\* n_samples must be >= n_clusters
KMeansValid(M) == Len(M.matrix.rows) >= NClusters

KMeansFitObject(M) == [fitted |-> TRUE, fittedOn |-> M, random_state |-> RandomState]

KMeansLabels(obj, M) == [labelsOf |-> M, centersOf |-> obj.fittedOn]

(***************************************************************************)
(* RandomForestClassifier(n_estimators=100, random_state=42) as the        *)
(* notebook uses it; the algorithm itself is SpecRF below.                 *)
(***************************************************************************)
NewClassifier == [fitted |-> FALSE]

\* a classifier trained on the projected coordinates where they exist
ClfFitInputProjected(scaled, projected) == IF projected # None THEN projected ELSE scaled

\* the matrix handed to clf.fit
ClfFitInput(scaled, projected) == scaled

\* the matrix handed to clf.predict
ClfPredictInput(scaled, projected) == scaled

\* clf.fit(M, lbl): classes_ = np.unique(lbl); the trees are drawn from the
\* classifier's own RandomState(42)
RandomForestFitObject(M, lbl) ==
    [fitted |-> TRUE, X |-> M, y |-> lbl, classes |-> SortedSeq(Range(lbl.values)),
     random_state |-> RandomState]

(***************************************************************************)
(* sklearn.metrics                                                         *)
(***************************************************************************)
\* unique_labels(y_true, y_pred): the labels present, ascending
UniqueLabels(t, p) == SortedSeq(Range(t) \cup Range(p))

Count(t, p, a, b) == Cardinality({s \in 1..Len(t) : t[s] = a /\ p[s] = b})

\* confusion_matrix(y_true, y_pred): labels=None, so rows and columns are the
\* labels present in either vector, in ascending order
ConfusionMatrix(t, p) ==
    IF Len(t) # Len(p) THEN [error |-> ValueError("confusion_matrix")]
    ELSE LET labels == UniqueLabels(t, p)
         IN [error |-> NoError,
             labels |-> labels,
             matrix |-> [i \in 1..Len(labels) |-> [j \in 1..Len(labels) |->
                            Count(t, p, labels[i], labels[j])]]]

\* _prf_divide with zero_division="warn": 0/0 and x/0 give 0.0 and a warning
PrfDivideUnguarded(num, den) == [num |-> num, den |-> den]

PrfDivide(num, den) == IF den = 0 THEN [num |-> 0, den |-> 1] ELSE [num |-> num, den |-> den]

\* one row of precision_recall_fscore_support for label c
PrfsRow(t, p, c) ==
    LET tp_sum == Cardinality({s \in 1..Len(t) : t[s] = c /\ p[s] = c})
        pred_sum == Cardinality({s \in 1..Len(t) : p[s] = c})
        true_sum == Cardinality({s \in 1..Len(t) : t[s] = c})
    IN [label |-> c,
        precision |-> PrfDivide(tp_sum, pred_sum),
        recall |-> PrfDivide(tp_sum, true_sum),
        f1 |-> PrfDivide(2 * tp_sum, true_sum + pred_sum),
        support |-> true_sum]

\* classification_report(y_true, y_pred, target_names=[nNames names])
ClassificationReport(t, p, nNames) ==
    IF Len(t) # Len(p) THEN [error |-> ValueError("classification_report")]
    ELSE LET labels == UniqueLabels(t, p)
         IN IF Len(labels) # nNames
            THEN [error |-> ValueError("classification_report")]
            ELSE [error |-> NoError,
                  rows |-> [i \in 1..Len(labels) |->
                              [name |-> i] @@ PrfsRow(t, p, labels[i])]]

\* the algorithm-level machines are not running
ScIdle ==
    /\ sc_X = <<>> /\ sc_phase = "idle" /\ sc_err = NoError /\ sc_scaler = None
    /\ sc_out = <<>>

RpIdle ==
    /\ rp_n = 0 /\ rp_seed = 0 /\ rp_solver = "none" /\ rp_run = 0 /\ rp_pc = "idle"
    /\ rp_global = None /\ rp_out = <<>> /\ rp_draws = <<>>

ParIdle ==
    /\ par_X = <<>> /\ par_threads = 0 /\ par_centers = <<>> /\ par_next = <<>>
    /\ par_buf = <<>> /\ par_labels = <<>> /\ par_sum = <<>> /\ par_w = <<>>
    /\ par_reduced = {} /\ par_phase = "idle" /\ par_new = <<>> /\ par_x = 0
    /\ par_pred = 0

RFIdle ==
    /\ rf_X = <<>> /\ rf_y = <<>> /\ rf_phase = "idle" /\ rf_err = NoError
    /\ rf_classes = <<>> /\ rf_estimators = <<>> /\ rf_x = 0 /\ rf_pred = None
    /\ rf_importances = None

EvIdle ==
    /\ ev_true = <<>> /\ ev_pred = <<>> /\ ev_names = 0
    /\ ev_report = None /\ ev_cm = None

KMIdle ==
    /\ km_X = <<>> /\ km_k = 0 /\ km_max_iter = 0 /\ km_init = <<>>
    /\ km_phase = "idle" /\ km_centers = <<>> /\ km_labels = <<>>
    /\ km_labels_old = <<>> /\ km_n_iter = 0 /\ km_strict = FALSE
    /\ km_hist = <<>> /\ km_pred = <<>>
    /\ km_npredict = 0 /\ km_last = None

(***************************************************************************)
(* The notebook, statement by statement.  An exception stops the run.      *)
(***************************************************************************)
dataVars == <<notebook, y, seed>>
splitVars == <<X_train, X_test, y_train, y_test>>
scaleVars == <<scaler, X_train_scaled, X_test_scaled>>
pcaVars == <<pca, X_train_pca, X_test_pca, np_random>>
clusterVars == <<kmeans, y_train_clusters, y_test_clusters>>
clfVars == <<clf, y_pred>>
evalVars == <<report, cm, feature_importances>>

\* the label columns the generators can produce for a notebook
LabelColumns(nb) ==
    UNION {[1..n -> 0..(TargetNames(nb) - 1)] : n \in 0..MaxSamples}

Init ==
    /\ notebook \in Notebooks
    /\ y \in LabelColumns(notebook)
    /\ seed \in 0..MaxSeed
    /\ pc = "train_test_split"
    /\ err = NoError
    /\ calls = <<>>
    /\ np_random = 0
    /\ X_train = <<>> /\ X_test = <<>>
    /\ y_train = None /\ y_test = None
    /\ scaler = NewScaler
    /\ X_train_scaled = None /\ X_test_scaled = None
    /\ pca = NewPCA
    /\ X_train_pca = None /\ X_test_pca = None
    /\ kmeans = NewKMeans
    /\ y_train_clusters = None /\ y_test_clusters = None
    /\ clf = NewClassifier
    /\ y_pred = None
    /\ report = None /\ cm = None /\ feature_importances = None
    /\ KMIdle /\ RFIdle /\ EvIdle /\ ParIdle /\ RpIdle /\ ScIdle

RaiseAsPipelineError(stage) ==
    /\ pc' = "failed"
    /\ err' = ValueError("pipeline")

Raise(stage) ==
    /\ pc' = "failed"
    /\ err' = ValueError(stage)

Goto(next, call) ==
    /\ pc' = next
    /\ err' = err
    /\ calls' = Append(calls, call)

\* X_train, X_test, y_train, y_test = train_test_split(X, y, test_size=0.3, random_state=42)
TrainTestSplit ==
    /\ pc = "train_test_split"
    /\ IF NTrain(Len(y)) = 0
       THEN /\ Raise("train_test_split")
            /\ UNCHANGED <<calls, splitVars>>
       ELSE /\ Goto("scaler.fit_transform", "train_test_split")
            /\ X_train' = TrainIndices(seed, Len(y))
            /\ X_test' = TestIndices(seed, Len(y))
            /\ y_train' = TakeLabels(y, TrainIndices(seed, Len(y)))
            /\ y_test' = TakeLabels(y, TestIndices(seed, Len(y)))
    /\ UNCHANGED <<algVars, dataVars, scaleVars, pcaVars, clusterVars, clfVars, evalVars>>

\* X_train_scaled = scaler.fit_transform(X_train)
ScalerFitTransform ==
    /\ pc = "scaler.fit_transform"
    /\ LET r == StandardScalerFitTransform(scaler, X_train)
       IN /\ scaler' = r.object
          /\ X_train_scaled' = r.out
    /\ Goto("scaler.transform", "scaler.fit_transform(X_train)")
    /\ UNCHANGED <<algVars, dataVars, splitVars, X_test_scaled, pcaVars, clusterVars, clfVars, evalVars>>

\* X_test_scaled = scaler.transform(X_test)
ScalerTransform ==
    /\ pc = "scaler.transform"
    /\ LET r == StandardScalerTransform(scaler, X_test)
       IN /\ scaler' = r.object
          /\ X_test_scaled' = r.out
    /\ Goto(IF HasProjection(notebook) THEN "pca.fit_transform" ELSE "clf.fit",
            "scaler.transform(X_test)")
    /\ UNCHANGED <<algVars, dataVars, splitVars, X_train_scaled, pcaVars, clusterVars, clfVars, evalVars>>

\* X_train_pca = pca.fit_transform(X_train_scaled); svd_solver="auto" picks the
\* randomized solver for a large matrix, which draws from numpy's global generator
PcaFitTransform ==
    /\ pc = "pca.fit_transform"
    /\ IF ~PCAValid(X_train_scaled)
       THEN /\ Raise("pca.fit_transform")
            /\ UNCHANGED <<calls, pca, X_train_pca, np_random>>
       ELSE /\ LET r == PCAFitTransform(pca, X_train_scaled)
               IN /\ pca' = r.object
                  /\ X_train_pca' = r.out
            /\ \E draws \in {0, 1} : np_random' = np_random + draws
            /\ Goto("pca.transform", "pca.fit_transform(X_train_scaled)")
    /\ UNCHANGED <<algVars, dataVars, splitVars, scaleVars, X_test_pca, clusterVars, clfVars, evalVars>>

\* X_test_pca = pca.transform(X_test_scaled)
PcaTransform ==
    /\ pc = "pca.transform"
    /\ LET r == PCATransform(pca, X_test_scaled)
       IN /\ pca' = r.object
          /\ X_test_pca' = r.out
    /\ Goto("kmeans.fit_predict", "pca.transform(X_test_scaled)")
    /\ UNCHANGED <<algVars, dataVars, splitVars, scaleVars, X_train_pca, np_random, clusterVars, clfVars, evalVars>>

\* y_train_clusters = kmeans.fit_predict(X_train_pca)
KMeansFitPredict ==
    /\ pc = "kmeans.fit_predict"
    /\ IF ~KMeansValid(X_train_pca)
       THEN /\ Raise("kmeans.fit_predict")
            /\ UNCHANGED <<calls, kmeans, y_train_clusters>>
       ELSE /\ kmeans' = KMeansFitObject(X_train_pca)
            /\ y_train_clusters' = KMeansLabels(KMeansFitObject(X_train_pca), X_train_pca)
            /\ Goto("kmeans.predict", "kmeans.fit_predict(X_train_pca)")
    /\ UNCHANGED <<algVars, dataVars, splitVars, scaleVars, pcaVars, y_test_clusters, clfVars, evalVars>>

\* y_test_clusters = kmeans.predict(X_test_pca)
KMeansPredict ==
    /\ pc = "kmeans.predict"
    /\ y_test_clusters' = KMeansLabels(kmeans, X_test_pca)
    /\ Goto("clf.fit", "kmeans.predict(X_test_pca)")
    /\ UNCHANGED <<algVars, dataVars, splitVars, scaleVars, pcaVars, kmeans, y_train_clusters, clfVars, evalVars>>

\* clf.fit(X_train_scaled, y_train)
ClfFit ==
    /\ pc = "clf.fit"
    /\ clf' = RandomForestFitObject(ClfFitInput(X_train_scaled, X_train_pca), y_train)
    /\ Goto("clf.predict", "clf.fit")
    /\ UNCHANGED <<algVars, dataVars, splitVars, scaleVars, pcaVars, clusterVars, y_pred, evalVars>>

\* y_pred = clf.predict(X_test_scaled): one label of classes_ per row
ClfPredict ==
    /\ pc = "clf.predict"
    /\ LET M == ClfPredictInput(X_test_scaled, X_test_pca)
       IN \E values \in [1..Len(X_test) -> Range(clf.classes)] :
             y_pred' = [of |-> M, by |-> [X |-> clf.X, y |-> clf.y], values |-> values]
    /\ Goto("classification_report", "clf.predict")
    /\ UNCHANGED <<algVars, dataVars, splitVars, scaleVars, pcaVars, clusterVars, clf, evalVars>>

\* print(classification_report(y_test, y_pred, target_names=[...]))
Report ==
    /\ pc = "classification_report"
    /\ LET r == ClassificationReport(y_test.values, y_pred.values, TargetNames(notebook))
       IN IF r.error.raised
          THEN /\ Raise("classification_report")
               /\ UNCHANGED <<calls, report>>
          ELSE /\ report' = r
               /\ Goto("confusion_matrix", "classification_report")
    /\ UNCHANGED <<algVars, dataVars, splitVars, scaleVars, pcaVars, clusterVars, clfVars, cm, feature_importances>>

\* print(confusion_matrix(y_test, y_pred))
Confusion ==
    /\ pc = "confusion_matrix"
    /\ cm' = ConfusionMatrix(y_test.values, y_pred.values)
    /\ Goto("feature_importances", "confusion_matrix")
    /\ UNCHANGED <<algVars, dataVars, splitVars, scaleVars, pcaVars, clusterVars, clfVars, report, feature_importances>>

\* pd.Series(clf.feature_importances_, index=X.columns)
FeatureImportances ==
    /\ pc = "feature_importances"
    /\ feature_importances' = [of |-> [X |-> clf.X, y |-> clf.y]]
    /\ Goto("done", "clf.feature_importances_")
    /\ UNCHANGED <<algVars, dataVars, splitVars, scaleVars, pcaVars, clusterVars, clfVars, report, cm>>

Next ==
    \/ TrainTestSplit
    \/ ScalerFitTransform
    \/ ScalerTransform
    \/ PcaFitTransform
    \/ PcaTransform
    \/ KMeansFitPredict
    \/ KMeansPredict
    \/ ClfFit
    \/ ClfPredict
    \/ Report
    \/ Confusion
    \/ FeatureImportances

Spec == Init /\ [][Next]_vars

(***************************************************************************)
(* Properties of the notebook run (Spec).                                  *)
(***************************************************************************)
SplitDone == pc \notin {"train_test_split", "failed"} \/ (pc = "failed" /\ calls # <<>>)

\* C1: once train_test_split has returned, every sample index 1..n is in
\* exactly one of X_train and X_test (disjoint, together the whole table, no
\* index twice), and the label subsets carry the same indices.
C1_SplitIsPartition ==
    SplitDone =>
        /\ Range(X_train) \cap Range(X_test) = {}
        /\ Range(X_train) \cup Range(X_test) = 1..Len(y)
        /\ Len(X_train) + Len(X_test) = Len(y)
        /\ y_train.index = X_train
        /\ y_test.index = X_test

C1_Witness ==
    /\ SplitDone
    /\ Len(X_train) >= 3
    /\ Len(X_test) >= 2
    /\ seed > 0

\* the scaled training matrix and the projector fitted on it, as functions of
\* the training subset alone
ScaledTrain == [rows |-> X_train, scaledBy |-> X_train]
ScaledTest == [rows |-> X_test, scaledBy |-> X_train]

IndexOf(s, e) == CHOOSE i \in 1..Len(s) : s[i] = e
Called(e) == e \in Range(calls)
Before(a, b) == Called(b) => (Called(a) /\ IndexOf(calls, a) < IndexOf(calls, b))

\* C2: the scaler and the projector are each fitted exactly once, on the
\* training subset, before the test subset is transformed; no transform
\* changes a fitted object, so the test subset is transformed with the state
\* fitted on train, and the fitted states at the end are determined by the
\* training subset alone.
C2_FittedOnceOnTrain ==
    /\ scaler.fits <= 1 /\ pca.fits <= 1
    /\ scaler.fitted => scaler = [fitted |-> TRUE, fits |-> 1, fittedOn |-> X_train]
    /\ pca.fitted => pca = [fitted |-> TRUE, fits |-> 1, fittedOn |-> ScaledTrain]
    /\ Before("scaler.fit_transform(X_train)", "scaler.transform(X_test)")
    /\ Before("pca.fit_transform(X_train_scaled)", "pca.transform(X_test_scaled)")
    /\ X_train_scaled # None => X_train_scaled = ScaledTrain
    /\ X_test_scaled # None => (scaler.fitted /\ X_test_scaled = ScaledTest)
    /\ X_test_pca # None =>
          (pca.fitted /\ X_test_pca = [matrix |-> ScaledTest, projectedBy |-> ScaledTrain])
    /\ pc = "done" => scaler.fitted
    /\ (pc = "done" /\ HasProjection(notebook)) => pca.fitted

C2_Witness ==
    /\ pc = "done"
    /\ HasProjection(notebook)
    /\ X_test_pca # None
    /\ scaler.fits = 1 /\ pca.fits = 1

\* C3: the classifier is fitted on the scaled, unprojected training matrix and
\* the training labels and predicts on the scaled test matrix; nothing the
\* projector or the clusterer produced is among its inputs, so the fitted
\* classifier is the same function of the split whether or not the PCA and
\* KMeans cells ran.
C3_ClassifierInputs ==
    /\ clf.fitted =>
          /\ clf = RandomForestFitObject(ScaledTrain, y_train)
          /\ clf.X \notin {X_train_pca, X_test_pca}
          /\ clf.y \notin {y_train_clusters, y_test_clusters}
    /\ y_pred # None =>
          /\ y_pred.of = ScaledTest
          /\ y_pred.of \notin {X_train_pca, X_test_pca}
          /\ y_pred.by = [X |-> ScaledTrain, y |-> y_train]
          /\ Len(y_pred.values) = Len(X_test)

C3_Witness ==
    /\ pc = "done"
    /\ HasProjection(notebook)
    /\ y_test_clusters # None
    /\ y_pred # None
    /\ np_random > 0

(***************************************************************************)
(* KMeans(n_clusters=k, random_state=42): k-means++ seeding, Lloyd          *)
(* iterations, predict.  Arithmetic is exact: a center coordinate is kept   *)
(* as an integer, the coordinate times CenterScale, and CenterScale is a    *)
(* multiple of every cluster size.                                          *)
(***************************************************************************)
\* the matrix has 1..MaxPoints rows
MaxPoints == 4
\* a coordinate of a point lies in 0..MaxCoord
MaxCoord == 2
\* max_iter ranges over 1..MaxIterCap
MaxIterCap == 3

\* tol=1e-4, as its inverse
TolInverse == 10000

RECURSIVE Gcd(_, _)
Gcd(a, b) == IF b = 0 THEN a ELSE Gcd(b, a % b)

RECURSIVE LcmUpTo(_)
LcmUpTo(n) == IF n <= 1 THEN 1 ELSE LET l == LcmUpTo(n - 1) IN (l * n) \div Gcd(l, n)

CenterScale == LcmUpTo(MaxPoints)

Features == 1..NComponents
ZeroVec == [f \in Features |-> 0]
VecAdd(a, b) == [f \in Features |-> a[f] + b[f]]
VecSub(a, b) == [f \in Features |-> a[f] - b[f]]
VecScale(a, c) == [f \in Features |-> a[f] * c]
Norm2(a) == SeqSum([f \in Features |-> a[f] * a[f]])

RECURSIVE SumOver(_, _)
SumOver(X, S) ==
    IF S = {} THEN ZeroVec
    ELSE LET i == CHOOSE e \in S : TRUE IN VecAdd(X[i], SumOver(X, S \ {i}))

\* squared distance between a row and a (scaled) center
Dist2(pt, c) == Norm2(VecSub(VecScale(pt, CenterScale), c))

\* k-means++: the first center is any row; each further center is a row at a
\* positive distance from the centers chosen so far (rows are drawn with
\* probability proportional to that squared distance); when every row already
\* coincides with a center the draw falls on row 0
ClosestD2(X, chosen, i) ==
    LET ds == {Norm2(VecSub(X[i], X[chosen[c]])) : c \in 1..Len(chosen)}
    IN CHOOSE d \in ds : \A e \in ds : d <= e

RECURSIVE PlusPlusFrom(_, _, _)
PlusPlusFrom(X, k, chosen) ==
    IF Len(chosen) = k THEN {chosen}
    ELSE LET cand == {i \in 1..Len(X) : ClosestD2(X, chosen, i) > 0}
         IN IF cand = {} THEN PlusPlusFrom(X, k, Append(chosen, 1))
            ELSE UNION {PlusPlusFrom(X, k, Append(chosen, i)) : i \in cand}

KMeansPlusPlus(X, k) == UNION {PlusPlusFrom(X, k, <<i>>) : i \in 1..Len(X)}

\* E-step: the nearest center, the lowest index among equally near ones
Nearest(pt, centers) ==
    CHOOSE j \in 1..Len(centers) :
        /\ \A i \in 1..Len(centers) : Dist2(pt, centers[j]) <= Dist2(pt, centers[i])
        /\ \A i \in 1..(j - 1) : Dist2(pt, centers[i]) > Dist2(pt, centers[j])

AssignLabels(X, centers) == [i \in 1..Len(X) |-> Nearest(X[i], centers)]

Members(labels, j) == {i \in 1..Len(labels) : labels[i] = j}

\* _relocate_empty_clusters_dense: the rows farthest from their centers, as
\* np.argpartition(distances, -n_empty)[:-n_empty-1:-1] may return them
OwnDist2(X, labels, centers, i) == Dist2(X[i], centers[labels[i]])

FarFromCenters(X, labels, centers, nEmpty) ==
    {q \in [1..nEmpty -> 1..Len(X)] :
        /\ \A a, b \in 1..nEmpty : a # b => q[a] # q[b]
        /\ \A a \in 1..nEmpty : \A i \in (1..Len(X)) \ Range(q) :
              OwnDist2(X, labels, centers, q[a]) >= OwnDist2(X, labels, centers, i)
        /\ \A a \in 1..nEmpty :
              OwnDist2(X, labels, centers, q[nEmpty]) <= OwnDist2(X, labels, centers, q[a])}

RECURSIVE Relocate(_, _, _, _, _)
Relocate(st, X, labels, empties, far) ==
    IF empties = <<>> THEN st
    ELSE LET new == Head(empties)
             fi == Head(far)
             old == labels[fi]
             moved == [sum |-> [st.sum EXCEPT ![old] = VecSub(@, X[fi]), ![new] = X[fi]],
                       w |-> [st.w EXCEPT ![old] = @ - 1, ![new] = 1]]
         IN Relocate(moved, X, labels, Tail(empties), Tail(far))

\* sums and weights of the clusters before relocation
ClusterSums(X, labels, k) ==
    [sum |-> [j \in 1..k |-> SumOver(X, Members(labels, j))],
     w |-> [j \in 1..k |-> Cardinality(Members(labels, j))]]

EmptyClusters(labels, k) == SortedSeq({j \in 1..k : Members(labels, j) = {}})

MaxOwnDist2(X, labels, centers) ==
    LET ds == {OwnDist2(X, labels, centers, i) : i \in 1..Len(X)}
    IN CHOOSE d \in ds : \A e \in ds : d >= e

\* _average_centers: a cluster of positive weight gets the mean of its rows; a
\* cluster of weight zero keeps its sum, which is the origin of the centered
\* matrix, that is the mean of X once X_mean is added back
AverageCenters(st, X, k) ==
    [j \in 1..k |->
        IF st.w[j] > 0 THEN VecScale(st.sum[j], CenterScale \div st.w[j])
        ELSE VecScale(SumOver(X, 1..Len(X)), CenterScale \div Len(X))]

\* M-step of lloyd_iter: the new centers, one outcome per choice of far rows
NewCenters(X, labels, centers, k) ==
    LET st == ClusterSums(X, labels, k)
        empties == EmptyClusters(labels, k)
    IN IF empties = <<>> \/ MaxOwnDist2(X, labels, centers) = 0
       THEN {AverageCenters(st, X, k)}
       ELSE {AverageCenters(Relocate(st, X, labels, empties, far), X, k) :
                far \in FarFromCenters(X, labels, centers, Len(empties))}

\* center_shift_tot = sum of the squared moves of the centers (scaled)
ShiftTot(old, new) == SeqSum([j \in 1..Len(old) |-> Norm2(VecSub(new[j], old[j]))])

\* _tolerance(X, tol) = mean(var(X, axis=0)) * tol, scaled like ShiftTot
VarianceSum(X) ==
    SeqSum([f \in Features |->
        Len(X) * SeqSum([i \in 1..Len(X) |-> X[i][f] * X[i][f]])
          - SeqSum([i \in 1..Len(X) |-> X[i][f]]) * SeqSum([i \in 1..Len(X) |-> X[i][f]])])

Tolerance(X) ==
    (CenterScale * CenterScale * VarianceSum(X)) \div (TolInverse * NComponents * Len(X) * Len(X))

\* center_shift_tot <= tol
WithinToleranceNever(X, old, new) == FALSE

WithinTolerance(X, old, new) == ShiftTot(old, new) <= Tolerance(X)

\* labels_ after the loop: recomputed from the final centers when the loop did
\* not stop on equal labels
FinalLabelsOfLastIteration(X, centers, labels) == labels

FinalLabels(X, centers, labels) == AssignLabels(X, centers)

Points == [Features -> 0..MaxCoord]

\* the rows of a matrix are listed in lexicographic order: the result of a fit
\* depends on the order of the rows only through the breaking of ties
RowLeq(a, b) ==
    \E f \in 1..(NComponents + 1) :
        /\ \A g \in 1..(f - 1) : a[g] = b[g]
        /\ f <= NComponents => a[f] < b[f]

Matrices ==
    UNION {{M \in [1..n -> Points] : \A i \in 1..(n - 1) : RowLeq(M[i], M[i + 1])} :
              n \in 1..MaxPoints}

\* the notebook is not running
PipeIdle ==
    /\ notebook = "particle" /\ y = <<>> /\ seed = 0 /\ pc = "idle" /\ err = NoError
    /\ calls = <<>> /\ np_random = 0
    /\ X_train = <<>> /\ X_test = <<>> /\ y_train = None /\ y_test = None
    /\ scaler = NewScaler /\ X_train_scaled = None /\ X_test_scaled = None
    /\ pca = NewPCA /\ X_train_pca = None /\ X_test_pca = None
    /\ kmeans = NewKMeans /\ y_train_clusters = None /\ y_test_clusters = None
    /\ clf = NewClassifier /\ y_pred = None
    /\ report = None /\ cm = None /\ feature_importances = None

InitKM ==
    /\ PipeIdle /\ RFIdle /\ EvIdle /\ ParIdle /\ RpIdle /\ ScIdle
    /\ km_X \in Matrices
    /\ km_k \in 1..NClusters
    /\ km_max_iter \in 1..MaxIterCap
    /\ km_init = <<>>
    /\ km_phase = "new"
    /\ km_centers = <<>> /\ km_labels = <<>> /\ km_labels_old = <<>>
    /\ km_n_iter = 0 /\ km_strict = FALSE /\ km_hist = <<>> /\ km_pred = <<>>
    /\ km_npredict = 0 /\ km_last = None

kmInputs == <<km_X, km_k, km_max_iter>>

\* KMeans.fit: validation and seeding
KMFitStart ==
    /\ km_phase = "new"
    /\ IF Len(km_X) < km_k
       THEN /\ km_phase' = "failed"
            /\ UNCHANGED <<km_init, km_centers, km_labels_old>>
       ELSE \E init \in KMeansPlusPlus(km_X, km_k) :
            /\ km_phase' = "lloyd"
            /\ km_init' = init
            /\ km_centers' = [j \in 1..km_k |-> VecScale(km_X[init[j]], CenterScale)]
            /\ km_labels_old' = [i \in 1..Len(km_X) |-> 0]
    /\ UNCHANGED <<pipeVars, parVars, rpVars, scVars, rfAlgVars, evAlgVars, kmCallVars, kmInputs, km_labels, km_n_iter, km_strict, km_hist, km_pred>>

\* one pass of the loop "for i in range(max_iter)" of _kmeans_single_lloyd
KMLloydIter ==
    /\ km_phase = "lloyd"
    /\ km_n_iter < km_max_iter
    /\ LET labels == AssignLabels(km_X, km_centers)
       IN \E new \in NewCenters(km_X, labels, km_centers, km_k) :
            /\ km_labels' = labels
            /\ km_centers' = new
            /\ km_n_iter' = km_n_iter + 1
            /\ km_hist' = Append(km_hist, [labels |-> labels, centers_old |-> km_centers,
                                           centers_new |-> new])
            /\ IF labels = km_labels_old
               THEN /\ km_strict' = TRUE
                    /\ km_phase' = "fitted"
                    /\ UNCHANGED km_labels_old
               ELSE /\ UNCHANGED km_strict
                    /\ IF WithinTolerance(km_X, km_centers, new)
                       THEN /\ km_phase' = "estep"
                            /\ UNCHANGED km_labels_old
                       ELSE /\ km_labels_old' = labels
                            /\ km_phase' = IF km_n_iter + 1 = km_max_iter THEN "estep" ELSE "lloyd"
    /\ UNCHANGED <<pipeVars, parVars, rpVars, scVars, rfAlgVars, evAlgVars, kmCallVars, kmInputs, km_init, km_pred>>

\* "if not strict_convergence": the E-step is run once more on the final centers
KMFinalEStep ==
    /\ km_phase = "estep"
    /\ km_labels' = FinalLabels(km_X, km_centers, km_labels)
    /\ km_phase' = "fitted"
    /\ UNCHANGED <<pipeVars, parVars, rpVars, scVars, rfAlgVars, evAlgVars, kmCallVars, kmInputs, km_init, km_centers, km_labels_old, km_n_iter, km_strict, km_hist, km_pred>>

\* kmeans.predict(X) on the matrix the model was fitted on
KMPredictTrain ==
    /\ km_phase = "fitted"
    /\ km_pred = <<>>
    /\ km_pred' = AssignLabels(km_X, km_centers)
    /\ UNCHANGED <<pipeVars, parVars, rpVars, scVars, rfAlgVars, evAlgVars, kmCallVars, kmInputs, km_init, km_phase, km_centers, km_labels, km_labels_old,
                   km_n_iter, km_strict, km_hist>>

NextKM ==
    \/ KMFitStart
    \/ KMLloydIter
    \/ KMFinalEStep
    \/ KMPredictTrain

SpecKM == InitKM /\ [][NextKM]_vars

(***************************************************************************)
(* The life of one KMeans object: fit, and calls of predict at any time     *)
(* between the statements of the program, on any matrix.                    *)
(***************************************************************************)
\* the fitted matrix has at most MaxFitRows rows
MaxFitRows == 2
\* predict is called at most MaxPredicts times
MaxPredicts == 2

NotFittedError == [raised |-> TRUE, type |-> "NotFittedError", stage |-> "kmeans.predict"]

\* check_is_fitted(self): the object has cluster_centers_
IsFitted == km_phase = "fitted"

\* the matrices predict is called on: the fitted matrix and every single row
PredictMatrices == {km_X} \cup {<<pt>> : pt \in Points}

InitKMLife ==
    /\ InitKM
    /\ Len(km_X) <= MaxFitRows

kmFitVars == <<km_init, km_phase, km_centers, km_labels, km_labels_old, km_n_iter,
               km_strict, km_hist, km_pred>>

\* kmeans.fit_predict(M) written where kmeans.predict(M) was meant: the
\* object is fitted anew on M
KMFitPredictAgain ==
    /\ km_phase \in {"new", "failed", "fitted"}
    /\ km_npredict < MaxPredicts
    /\ \E M \in PredictMatrices :
          /\ km_last' = [set |-> TRUE, X |-> M, error |-> NoError,
                         labels |-> [i \in 1..Len(M) |-> 1]]
          /\ km_centers' = <<VecScale(M[1], CenterScale)>>
          /\ km_n_iter' = 1
          /\ km_phase' = "fitted"
    /\ km_npredict' = km_npredict + 1
    /\ UNCHANGED <<pipeVars, parVars, rpVars, scVars, rfAlgVars, evAlgVars, kmInputs,
                   km_init, km_labels, km_labels_old, km_strict, km_hist, km_pred>>

\* kmeans.predict(M), between two statements of the program: NotFittedError
\* unless the object is fitted, else the index of the nearest center per row
KMPredict ==
    /\ km_phase \in {"new", "failed", "fitted"}
    /\ km_npredict < MaxPredicts
    /\ \E M \in PredictMatrices :
          km_last' = IF IsFitted
                     THEN [set |-> TRUE, X |-> M, error |-> NoError,
                           labels |-> AssignLabels(M, km_centers)]
                     ELSE [set |-> TRUE, X |-> M, error |-> NotFittedError]
    /\ km_npredict' = km_npredict + 1
    /\ UNCHANGED <<pipeVars, parVars, rpVars, scVars, rfAlgVars, evAlgVars, kmInputs, kmFitVars>>

NextKMLife ==
    \/ KMFitStart
    \/ KMLloydIter
    \/ KMFinalEStep
    \/ KMPredict

SpecKMLife == InitKMLife /\ [][NextKMLife]_vars

(***************************************************************************)
(* RandomForestClassifier(n_estimators, random_state=42): fit and predict.  *)
(* A row is the value of one feature.  Class probabilities are compared     *)
(* exactly, as integers over a common denominator.                          *)
(***************************************************************************)
\* fit is given 0..MaxRows rows
MaxRows == 3
\* a feature value lies in 0..MaxValue
MaxValue == 1
\* n_estimators (the notebooks pass 100)
NEstimators == 3

\* the labels the notebooks' generators produce
ClassLabels == 0..(TargetNames("particle") - 1)

\* _generate_sample_indices + np.bincount: how often each row was drawn when
\* n rows are drawn with replacement
Bootstraps(n) == {c \in [1..n -> 0..n] : SeqSum(c) = n}

\* the weight of each class among the rows S of a node
ClassWeights(lbl, w, S, classes) ==
    [c \in 1..Len(classes) |->
        SeqSum([i \in 1..Len(lbl) |-> IF i \in S /\ lbl[i] = classes[c] THEN w[i] ELSE 0])]

SumSquares(v) == SeqSum([c \in 1..Len(v) |-> v[c] * v[c]])

\* Gini.proxy_impurity_improvement of a split into L and R, as a fraction
ProxyImprovement(lbl, w, L, R, classes) ==
    LET vl == ClassWeights(lbl, w, L, classes)
        vr == ClassWeights(lbl, w, R, classes)
    IN [num |-> SumSquares(vl) * SeqSum(vr) + SumSquares(vr) * SeqSum(vl),
        den |-> SeqSum(vl) * SeqSum(vr)]

Better(a, b) == a.num * b.den > b.num * a.den

\* BestSplitter.node_split: thresholds are tried in ascending order and a later
\* one replaces the best so far only when strictly better
BestSplit(X, lbl, w, S, classes, vals) ==
    LET proxy(q) == ProxyImprovement(lbl, w, {i \in S : X[i] <= vals[q]},
                                     {i \in S : X[i] > vals[q]}, classes)
    IN CHOOSE q \in 1..(Len(vals) - 1) :
          /\ \A r \in 1..(Len(vals) - 1) : ~Better(proxy(r), proxy(q))
          /\ \A r \in 1..(q - 1) : Better(proxy(q), proxy(r))

\* DepthFirstTreeBuilder with max_depth=None, min_samples_split=2: a node is a
\* leaf when it is pure or no threshold separates its rows
RECURSIVE BuildTree(_, _, _, _, _)
BuildTree(X, lbl, w, S, classes) ==
    LET value == ClassWeights(lbl, w, S, classes)
        vals == SortedSeq({X[i] : i \in S})
    IN IF Cardinality({c \in 1..Len(classes) : value[c] > 0}) <= 1 \/ Len(vals) <= 1
       THEN [leaf |-> TRUE, value |-> value]
       ELSE LET q == BestSplit(X, lbl, w, S, classes, vals)
            IN [leaf |-> FALSE, lo |-> vals[q], hi |-> vals[q + 1],
                left |-> BuildTree(X, lbl, w, {i \in S : X[i] <= vals[q]}, classes),
                right |-> BuildTree(X, lbl, w, {i \in S : X[i] > vals[q]}, classes)]

\* Tree.apply: a row goes left when x <= threshold = (lo + hi) / 2
RECURSIVE TreeValue(_, _)
TreeValue(tree, x) ==
    IF tree.leaf THEN tree.value
    ELSE IF 2 * x <= tree.lo + tree.hi THEN TreeValue(tree.left, x)
         ELSE TreeValue(tree.right, x)

\* np.argmax: the first index of the largest entry
ArgMax(v) ==
    CHOOSE c \in 1..Len(v) :
        /\ \A d \in 1..Len(v) : v[d] <= v[c]
        /\ \A d \in 1..(c - 1) : v[d] < v[c]

ProbaScale == LcmUpTo(MaxRows)

\* predict_proba of one tree for class c, times ProbaScale
TreeProba(tree, x, c) ==
    LET value == TreeValue(tree, x) IN value[c] * (ProbaScale \div SeqSum(value))

\* ForestClassifier.predict_proba for class c, times ProbaScale * n_estimators
ForestProba(estimators, x, c) ==
    SeqSum([t \in 1..Len(estimators) |-> TreeProba(estimators[t], x, c)])

\* the number of trees whose own prediction is class c
TreeVotes(estimators, x, c) ==
    Cardinality({t \in 1..Len(estimators) : ArgMax(TreeValue(estimators[t], x)) = c})

\* ForestClassifier.predict: classes_.take(np.argmax(predict_proba(X), axis=1))
ForestPredictByVote(estimators, classes, x) ==
    classes[ArgMax([c \in 1..Len(classes) |-> TreeVotes(estimators, x, c)])]

ForestPredict(estimators, classes, x) ==
    classes[ArgMax([c \in 1..Len(classes) |-> ForestProba(estimators, x, c)])]

\* the class weights of the training rows that reach a node
RECURSIVE NodeValue(_)
NodeValue(tree) ==
    IF tree.leaf THEN tree.value
    ELSE LET l == NodeValue(tree.left)
             r == NodeValue(tree.right)
         IN [c \in 1..Len(l) |-> l[c] + r[c]]

\* weighted_n_node_samples * (1 - gini), that is sum(count^2) / weight, times
\* ProbaScale
ScaledSquares(v) == SumSquares(v) * (ProbaScale \div SeqSum(v))

\* Tree.compute_feature_importances: the impurity decrease of every split,
\* weighted by the node's weight, summed over the tree (times ProbaScale)
RECURSIVE TreeDecrease(_)
TreeDecrease(tree) ==
    IF tree.leaf THEN 0
    ELSE ScaledSquares(NodeValue(tree.left)) + ScaledSquares(NodeValue(tree.right))
           - ScaledSquares(NodeValue(tree))
           + TreeDecrease(tree.left) + TreeDecrease(tree.right)

\* tree.feature_importances_ (normalize=True): the decreases divided by their
\* sum when the sum is positive, else left as zeros; the one feature of a row
\* carries all of a tree's decrease
TreeImportances(tree) ==
    IF TreeDecrease(tree) > 0 THEN <<[num |-> 1, den |-> 1]>> ELSE <<[num |-> 0, den |-> 1]>>

\* BaseForest.feature_importances_: zeros when no tree has more than one node;
\* else the mean over the trees with more than one node, divided by its sum
\* (0/0 = NaN when none of them has a positive decrease)
ForestImportances(estimators) ==
    LET split == {t \in 1..Len(estimators) : ~estimators[t].leaf}
        total == Cardinality({t \in split : TreeImportances(estimators[t])[1].num > 0})
    IN IF split = {} THEN [nan |-> FALSE, values |-> <<[num |-> 0, den |-> 1]>>]
       ELSE IF total = 0 THEN [nan |-> TRUE, values |-> <<>>]
       ELSE [nan |-> FALSE, values |-> <<[num |-> total, den |-> total]>>]

\* the training sets: rows listed in ascending order of (x, label); a forest
\* does not depend on the order of the rows
TrainingSets ==
    UNION {{d \in [1..n -> [x : 0..MaxValue, label : ClassLabels]] :
               \A i \in 1..(n - 1) :
                  \/ d[i].x < d[i + 1].x
                  \/ d[i].x = d[i + 1].x /\ d[i].label <= d[i + 1].label} :
           n \in 0..MaxRows}

InitRF ==
    /\ PipeIdle /\ KMIdle /\ EvIdle /\ ParIdle /\ RpIdle /\ ScIdle
    /\ \E d \in TrainingSets :
          /\ rf_X = [i \in 1..Len(d) |-> d[i].x]
          /\ rf_y = [i \in 1..Len(d) |-> d[i].label]
    /\ rf_phase = "new" /\ rf_err = NoError
    /\ rf_classes = <<>> /\ rf_estimators = <<>> /\ rf_x = 0 /\ rf_pred = None
    /\ rf_importances = None

\* clf.fit(X_train_scaled, y_train)
RFFit ==
    /\ rf_phase = "new"
    /\ IF Len(rf_X) = 0
       THEN /\ rf_phase' = "failed"
            /\ rf_err' = ValueError("RandomForestClassifier.fit")
            /\ UNCHANGED <<rf_classes, rf_estimators>>
       ELSE \E boots \in [1..NEstimators -> Bootstraps(Len(rf_X))] :
            LET classes == SortedSeq(Range(rf_y))
            IN /\ rf_phase' = "fitted"
               /\ rf_classes' = classes
               /\ rf_estimators' =
                     [t \in 1..NEstimators |->
                        BuildTree(rf_X, rf_y, boots[t],
                                  {i \in 1..Len(rf_X) : boots[t][i] > 0}, classes)]
               /\ UNCHANGED rf_err
    /\ UNCHANGED <<pipeVars, parVars, rpVars, scVars, kmAlgVars, evAlgVars, rf_X, rf_y, rf_x, rf_pred, rf_importances>>

\* clf.predict on one row
RFPredict ==
    /\ rf_phase = "fitted"
    /\ \E x \in 0..MaxValue :
          /\ rf_x' = x
          /\ rf_pred' = [set |-> TRUE, label |-> ForestPredict(rf_estimators, rf_classes, x)]
    /\ rf_phase' = "predicted"
    /\ UNCHANGED <<pipeVars, parVars, rpVars, scVars, kmAlgVars, evAlgVars, rf_X, rf_y, rf_err, rf_classes, rf_estimators,
                   rf_importances>>

\* clf.feature_importances_
RFFeatureImportances ==
    /\ rf_phase \in {"fitted", "predicted"}
    /\ rf_importances = None
    /\ rf_importances' = [set |-> TRUE] @@ ForestImportances(rf_estimators)
    /\ UNCHANGED <<pipeVars, parVars, rpVars, scVars, kmAlgVars, evAlgVars, rf_X, rf_y, rf_phase, rf_err, rf_classes,
                   rf_estimators, rf_x, rf_pred>>

NextRF ==
    \/ RFFit
    \/ RFPredict
    \/ RFFeatureImportances

SpecRF == InitRF /\ [][NextRF]_vars

(***************************************************************************)
(* classification_report and confusion_matrix on given label vectors       *)
(***************************************************************************)
\* the label vectors have 1..MaxLen entries
MaxLen == 3

LabelVectors == UNION {[1..n -> ClassLabels] : n \in 1..MaxLen}

InitEval ==
    /\ PipeIdle /\ KMIdle /\ RFIdle /\ ParIdle /\ RpIdle /\ ScIdle
    /\ ev_true \in LabelVectors
    /\ ev_pred \in LabelVectors
    /\ ev_names \in {TargetNames(nb) : nb \in Notebooks}
    /\ ev_report = None /\ ev_cm = None

\* classification_report(y_true, y_pred, target_names=...)
EvReport ==
    /\ ev_report = None
    /\ ev_report' = [set |-> TRUE] @@ ClassificationReport(ev_true, ev_pred, ev_names)
    /\ UNCHANGED <<pipeVars, parVars, rpVars, scVars, kmAlgVars, rfAlgVars, ev_true, ev_pred, ev_names, ev_cm>>

\* confusion_matrix(y_true, y_pred)
EvConfusion ==
    /\ ev_cm = None
    /\ ev_cm' = [set |-> TRUE] @@ ConfusionMatrix(ev_true, ev_pred)
    /\ UNCHANGED <<pipeVars, parVars, rpVars, scVars, kmAlgVars, rfAlgVars, ev_true, ev_pred, ev_names, ev_report>>

NextEval ==
    \/ EvReport
    \/ EvConfusion

SpecEval == InitEval /\ [][NextEval]_vars

(***************************************************************************)
(* One pass of the Lloyd iteration as KMeans runs it on several threads:    *)
(* the rows are cut into chunks, every thread labels the rows of its chunks *)
(* and adds them to a buffer of its own, and the buffers are added to        *)
(* centers_new under a lock.  The sums are floating-point sums: a float    *)
(* here is a natural number with MantissaBits significant bits.             *)
(***************************************************************************)
\* one pass is given NClusters..MaxParRows rows
MaxParRows == 5
\* a row is a number in 0..MaxParValue
MaxParValue == 3
\* rows per chunk (256 in the library)
ChunkSize == 2
\* n_threads ranges over 1..MaxThreads
MaxThreads == 3
\* significant bits of a float (53 in a float64)
MantissaBits == 2

RECURSIVE Pow2(_)
Pow2(n) == IF n = 0 THEN 1 ELSE 2 * Pow2(n - 1)

RECURSIVE BitLen(_)
BitLen(x) == IF x = 0 THEN 0 ELSE 1 + BitLen(x \div 2)

\* round to nearest, ties to even
Fl(x) ==
    IF x < Pow2(MantissaBits) THEN x
    ELSE LET unit == Pow2(BitLen(x) - MantissaBits)
             q == x \div unit
             r == x % unit
         IN IF 2 * r > unit \/ (2 * r = unit /\ q % 2 = 1) THEN (q + 1) * unit ELSE q * unit

FlAdd(a, b) == Fl(a + b)

\* the reduction of a thread's buffer into centers_new
ReduceAdd(a, b) == FlAdd(a, b)

\* centers[j] *= 1 / weight_in_clusters[j]
FlMean(sum, w) == Fl((2 * sum + w) \div (2 * w))

\* the E-step for one row: nearest center, lowest index among equals
ParNearest(x, centers) ==
    CHOOSE j \in 1..Len(centers) :
        /\ \A i \in 1..Len(centers) :
              (x - centers[j]) * (x - centers[j]) <= (x - centers[i]) * (x - centers[i])
        /\ \A i \in 1..(j - 1) :
              (x - centers[i]) * (x - centers[i]) > (x - centers[j]) * (x - centers[j])

NumChunks(n) == (n + ChunkSize - 1) \div ChunkSize

ChunkRows(c, n) ==
    {i \in 1..n : (c - 1) * ChunkSize < i /\ i <= c * ChunkSize}

\* prange(n_chunks, schedule='static'): thread t gets a contiguous block
ChunksPerThread(n, threads) == (NumChunks(n) + threads - 1) \div threads

ChunksOf(t, n, threads) ==
    {c \in 1..NumChunks(n) :
        (t - 1) * ChunksPerThread(n, threads) < c /\ c <= t * ChunksPerThread(n, threads)}

EmptyBuffer == [sum |-> [j \in 1..NClusters |-> 0], w |-> [j \in 1..NClusters |-> 0]]

\* _update_chunk_dense: the rows of a chunk, in order, are added to the buffer
RECURSIVE UpdateChunk(_, _, _, _)
UpdateChunk(buf, X, centers, rows) ==
    IF rows = {} THEN buf
    ELSE LET i == CHOOSE r \in rows : \A q \in rows : r <= q
             j == ParNearest(X[i], centers)
         IN UpdateChunk([sum |-> [buf.sum EXCEPT ![j] = FlAdd(@, X[i])],
                         w |-> [buf.w EXCEPT ![j] = @ + 1]],
                        X, centers, rows \ {i})

AveragedCenters(sum, w) ==
    [j \in 1..NClusters |-> IF w[j] > 0 THEN FlMean(sum[j], w[j]) ELSE sum[j]]

\* the pass run by one thread
SingleThreaded(X, centers) ==
    LET buf == UpdateChunk(EmptyBuffer, X, centers, 1..Len(X))
    IN AveragedCenters([j \in 1..NClusters |-> ReduceAdd(0, buf.sum[j])], buf.w)

\* initial centers: rows of pairwise different value, as k-means++ picks them
ParInits(X) ==
    {c \in [1..NClusters -> 1..Len(X)] :
        /\ \A a, b \in 1..NClusters : a < b => c[a] < c[b]
        /\ \A a, b \in 1..NClusters : a # b => X[c[a]] # X[c[b]]}

InitPar ==
    /\ PipeIdle /\ KMIdle /\ RFIdle /\ EvIdle /\ RpIdle /\ ScIdle
    /\ par_X \in UNION {[1..n -> 0..MaxParValue] : n \in NClusters..MaxParRows}
    /\ par_threads \in 1..MaxThreads
    /\ \E c \in ParInits(par_X) : par_centers = [j \in 1..NClusters |-> par_X[c[j]]]
    /\ par_next = [t \in 1..par_threads |-> 0]
    /\ par_buf = [t \in 1..par_threads |-> EmptyBuffer]
    /\ par_labels = [i \in 1..Len(par_X) |-> 0]
    /\ par_sum = [j \in 1..NClusters |-> 0]
    /\ par_w = [j \in 1..NClusters |-> 0]
    /\ par_reduced = {}
    /\ par_phase = "chunks"
    /\ par_new = <<>> /\ par_x = 0 /\ par_pred = 0

parInputs == <<par_X, par_threads, par_centers>>

\* thread t processes the next chunk of its block
ParChunk(t) ==
    /\ par_phase = "chunks"
    /\ par_next[t] < Cardinality(ChunksOf(t, Len(par_X), par_threads))
    /\ LET c == (t - 1) * ChunksPerThread(Len(par_X), par_threads) + par_next[t] + 1
           rows == ChunkRows(c, Len(par_X))
       IN /\ par_buf' = [par_buf EXCEPT ![t] = UpdateChunk(@, par_X, par_centers, rows)]
          /\ par_labels' = [i \in 1..Len(par_X) |->
                              IF i \in rows THEN ParNearest(par_X[i], par_centers)
                              ELSE par_labels[i]]
    /\ par_next' = [par_next EXCEPT ![t] = @ + 1]
    /\ UNCHANGED <<pipeVars, kmAlgVars, rfAlgVars, evAlgVars, rpVars, scVars, parInputs, par_sum, par_w,
                   par_reduced, par_phase, par_new, par_x, par_pred>>

\* thread t, its block done, takes the lock and adds its buffer
ParReduce(t) ==
    /\ par_phase = "chunks"
    /\ t \notin par_reduced
    /\ par_next[t] = Cardinality(ChunksOf(t, Len(par_X), par_threads))
    /\ par_sum' = [j \in 1..NClusters |-> ReduceAdd(par_sum[j], par_buf[t].sum[j])]
    /\ par_w' = [j \in 1..NClusters |-> par_w[j] + par_buf[t].w[j]]
    /\ par_reduced' = par_reduced \cup {t}
    /\ UNCHANGED <<pipeVars, kmAlgVars, rfAlgVars, evAlgVars, rpVars, scVars, parInputs, par_next, par_buf,
                   par_labels, par_phase, par_new, par_x, par_pred>>

\* _average_centers, after the parallel region
ParAverage ==
    /\ par_phase = "chunks"
    /\ par_reduced = 1..par_threads
    /\ par_new' = AveragedCenters(par_sum, par_w)
    /\ par_phase' = "averaged"
    /\ UNCHANGED <<pipeVars, kmAlgVars, rfAlgVars, evAlgVars, rpVars, scVars, parInputs, par_next, par_buf,
                   par_labels, par_sum, par_w, par_reduced, par_x, par_pred>>

\* a row is labelled with the new centers
ParPredict ==
    /\ par_phase = "averaged"
    /\ \E x \in 0..MaxParValue :
          /\ par_x' = x
          /\ par_pred' = ParNearest(x, par_new)
    /\ par_phase' = "done"
    /\ UNCHANGED <<pipeVars, kmAlgVars, rfAlgVars, evAlgVars, rpVars, scVars, parInputs, par_next, par_buf,
                   par_labels, par_sum, par_w, par_reduced, par_new>>

NextPar ==
    \/ \E t \in 1..par_threads : ParChunk(t)
    \/ \E t \in 1..par_threads : ParReduce(t)
    \/ ParAverage
    \/ ParPredict

SpecPar == InitPar /\ [][NextPar]_vars

(***************************************************************************)
(* Two runs of the particle pipeline on one dataset.  What a statement      *)
(* computes is recorded by what it was computed from: its inputs and the    *)
(* state of the generator it draws from.                                    *)
(***************************************************************************)
\* a generator made from random_state=seed, before its first draw
SeededGenerator(sd) == [source |-> "random_state", seed |-> sd, drawn |-> 0]

\* numpy's global generator, as np.random.* and random_state=None use it
GlobalGenerator(g) == [source |-> "np.random", seed |-> g.seed, drawn |-> g.drawn]

NoGenerator == [source |-> "none"]

\* PCA(n_components=2) has no random_state; with svd_solver="auto" it runs the
\* randomized solver on a large matrix in some builds, a full one in others
Solvers == {"full", "randomized"}

PcaGenerator(solver, g) == IF solver = "randomized" THEN GlobalGenerator(g) ELSE NoGenerator

InitRepro ==
    /\ PipeIdle /\ KMIdle /\ RFIdle /\ EvIdle /\ ParIdle /\ ScIdle
    /\ rp_n \in {n \in 2..MaxSamples : NTrain(n) >= NClusters}
    /\ rp_seed \in 0..MaxSeed
    /\ rp_solver \in Solvers
    /\ rp_run = 1
    /\ rp_pc = "generate"
    /\ rp_global = None
    /\ rp_out = [r \in 1..2 |-> <<>>]
    /\ rp_draws = [r \in 1..2 |-> <<>>]

rpInputs == <<rp_n, rp_seed, rp_solver>>

RpOthers == <<pipeVars, kmAlgVars, rfAlgVars, evAlgVars, parVars, scVars>>

\* the statement at rp_pc computes value, drawing from generator gen
RpStep(stage, next, value, gen) ==
    /\ rp_pc = stage
    /\ rp_out' = [rp_out EXCEPT ![rp_run] = (stage :> value) @@ @]
    /\ rp_draws' = [rp_draws EXCEPT ![rp_run] =
                       IF gen.source = "none" THEN @ ELSE Append(@, [stage |-> stage, gen |-> gen])]
    /\ rp_pc' = next
    /\ UNCHANGED <<RpOthers, rpInputs, rp_run>>

\* df = generate_synthetic_data(): np.random.seed(42), then the columns
RpGenerate ==
    /\ rp_pc = "generate"
    /\ rp_global' = [set |-> TRUE, seed |-> RandomState, drawn |-> 1]
    /\ rp_pc' = "split"
    /\ UNCHANGED <<RpOthers, rpInputs, rp_run, rp_out, rp_draws>>

RpSplit ==
    /\ RpStep("split", "scale",
              [train |-> TrainIndices(rp_seed, rp_n), test |-> TestIndices(rp_seed, rp_n)],
              SeededGenerator(rp_seed))
    /\ UNCHANGED rp_global

RpScale ==
    /\ RpStep("scale", "pca", [fitted_on |-> rp_out[rp_run]["split"].train], NoGenerator)
    /\ UNCHANGED rp_global

RpPca ==
    /\ RpStep("pca", "kmeans",
              [input |-> rp_out[rp_run]["scale"], rng |-> PcaGenerator(rp_solver, rp_global)],
              PcaGenerator(rp_solver, rp_global))
    /\ rp_global' = IF rp_solver = "randomized"
                    THEN [rp_global EXCEPT !.drawn = @ + 1] ELSE rp_global

RpKMeans ==
    /\ RpStep("kmeans", "clf",
              [input |-> rp_out[rp_run]["pca"], rng |-> SeededGenerator(RandomState)],
              SeededGenerator(RandomState))
    /\ UNCHANGED rp_global

RpClf ==
    /\ RpStep("clf", "predict",
              [X |-> rp_out[rp_run]["scale"], y |-> rp_out[rp_run]["split"].train,
               rng |-> SeededGenerator(RandomState)],
              SeededGenerator(RandomState))
    /\ UNCHANGED rp_global

RpPredict ==
    /\ RpStep("predict", "confusion_matrix",
              [clf |-> rp_out[rp_run]["clf"], X |-> rp_out[rp_run]["split"].test], NoGenerator)
    /\ UNCHANGED rp_global

RpConfusion ==
    /\ RpStep("confusion_matrix", "feature_importances",
              [y_true |-> rp_out[rp_run]["split"].test, y_pred |-> rp_out[rp_run]["predict"]],
              NoGenerator)
    /\ UNCHANGED rp_global

RpImportances ==
    /\ RpStep("feature_importances", "done", [clf |-> rp_out[rp_run]["clf"]], NoGenerator)
    /\ UNCHANGED rp_global

\* the second run: the whole notebook again, or the cells from the split on
RpRunAgain ==
    /\ rp_pc = "done"
    /\ rp_run = 1
    /\ rp_run' = 2
    /\ rp_pc' \in {"generate", "split"}
    /\ UNCHANGED <<RpOthers, rpInputs, rp_global, rp_out, rp_draws>>

NextRepro ==
    \/ RpGenerate
    \/ RpSplit
    \/ RpScale
    \/ RpPca
    \/ RpKMeans
    \/ RpClf
    \/ RpPredict
    \/ RpConfusion
    \/ RpImportances
    \/ RpRunAgain

SpecRepro == InitRepro /\ [][NextRepro]_vars

(***************************************************************************)
(* StandardScaler on numbers: mean_, var_ and scale_ per column, and the    *)
(* transform (x - mean_) / scale_.  A value is kept as a fraction; a scale  *)
(* is kept as the variance it is the square root of.                        *)
(***************************************************************************)
\* the matrix has 1..MaxScalerRows rows
MaxScalerRows == 3
\* and MaxScalerCols columns
MaxScalerCols == 2
\* a cell is a number in 0..MaxCell
MaxCell == 1

Column(X, c) == [i \in 1..Len(X) |-> X[i][c]]

\* n^2 times the variance of a column (np.var, ddof=0)
ScaledVariance(col) ==
    Len(col) * SeqSum([i \in 1..Len(col) |-> col[i] * col[i]]) - SeqSum(col) * SeqSum(col)

\* _handle_zeros_in_scale(np.sqrt(var_)): a scale of 0 is replaced by 1
HandleZerosInScale(var_num, var_den) ==
    IF var_num = 0 THEN [sqrt_of |-> [num |-> 1, den |-> 1]]
    ELSE [sqrt_of |-> [num |-> var_num, den |-> var_den]]

\* StandardScaler.fit
FitStatistics(X) ==
    [set |-> TRUE,
     mean_ |-> [c \in 1..MaxScalerCols |-> [num |-> SeqSum(Column(X, c)), den |-> Len(X)]],
     var_ |-> [c \in 1..MaxScalerCols |->
                 [num |-> ScaledVariance(Column(X, c)), den |-> Len(X) * Len(X)]],
     scale_ |-> [c \in 1..MaxScalerCols |->
                   HandleZerosInScale(ScaledVariance(Column(X, c)), Len(X) * Len(X))]]

\* StandardScaler.transform: (x - mean_) / scale_, as a fraction over the scale
ScaleRows(obj, X) ==
    [i \in 1..Len(X) |-> [c \in 1..MaxScalerCols |->
        [num |-> X[i][c] * obj.mean_[c].den - obj.mean_[c].num,
         den |-> obj.mean_[c].den,
         over |-> obj.scale_[c]]]]

InitScaler ==
    /\ PipeIdle /\ KMIdle /\ RFIdle /\ EvIdle /\ ParIdle /\ RpIdle
    /\ sc_X \in UNION {[1..n -> [1..MaxScalerCols -> 0..MaxCell]] : n \in 1..MaxScalerRows}
    /\ sc_phase = "new" /\ sc_err = NoError /\ sc_scaler = None /\ sc_out = <<>>

ScOthers == <<pipeVars, kmAlgVars, rfAlgVars, evAlgVars, parVars, rpVars>>

\* scaler.fit_transform(X_train): the fit
ScFit ==
    /\ sc_phase = "new"
    /\ sc_scaler' = FitStatistics(sc_X)
    /\ sc_phase' = "fitted"
    /\ UNCHANGED <<ScOthers, sc_X, sc_err, sc_out>>

\* scaler.fit_transform(X_train): the transform
ScTransform ==
    /\ sc_phase = "fitted"
    /\ sc_out' = ScaleRows(sc_scaler, sc_X)
    /\ sc_phase' = "transformed"
    /\ UNCHANGED <<ScOthers, sc_X, sc_err, sc_scaler>>

NextScaler ==
    \/ ScFit
    \/ ScTransform

SpecScaler == InitScaler /\ [][NextScaler]_vars

KMStopped == km_phase \in {"estep", "fitted"}

\* iteration t left the labels of iteration t - 1 unchanged
SameLabelsAt(t) == t > 1 /\ km_hist[t].labels = km_hist[t - 1].labels

\* iteration t moved the centers by no more than the tolerance
SmallShiftAt(t) ==
    ShiftTot(km_hist[t].centers_old, km_hist[t].centers_new) <= Tolerance(km_X)

\* C4 (as amended): the loop of a fit terminates, since every pass raises the
\* iteration count by one and the count never exceeds max_iter; it stops at
\* the first iteration whose labels equal those of the previous iteration or
\* whose total center shift is within the tolerance, or at max_iter, whichever
\* comes first, and n_iter_ never exceeds max_iter.
C4_StopsAtFirstConvergedIteration ==
    /\ [][km_phase = "lloyd" =>
            /\ km_n_iter' = km_n_iter + 1
            /\ km_n_iter' <= km_max_iter
            /\ km_phase' = "lloyd" => km_n_iter' < km_max_iter]_vars
    /\ [](KMStopped =>
            /\ km_n_iter = Len(km_hist)
            /\ 1 <= km_n_iter /\ km_n_iter <= km_max_iter
            /\ SameLabelsAt(km_n_iter) \/ SmallShiftAt(km_n_iter) \/ km_n_iter = km_max_iter
            /\ \A t \in 1..(km_n_iter - 1) : ~SameLabelsAt(t) /\ ~SmallShiftAt(t))

\* a fit that stopped before max_iter on a small center shift, its labels
\* differing from those of the previous iteration or having none before them
C4_Witness ==
    /\ km_phase = "fitted"
    /\ km_n_iter < km_max_iter
    /\ SmallShiftAt(km_n_iter)
    /\ ~SameLabelsAt(km_n_iter)

\* C4 as stated: the loop stops only on equal labels or at max_iter
C4_AsStated ==
    KMStopped =>
        /\ km_n_iter <= km_max_iter
        /\ SameLabelsAt(km_n_iter) \/ km_n_iter = km_max_iter
        /\ \A t \in 1..(km_n_iter - 1) : ~SameLabelsAt(t)

\* C5: predict on the training matrix returns, for every row, the label that
\* fit left in labels_.
C5_PredictIsFinalAssignment ==
    km_pred # <<>> =>
        /\ Len(km_pred) = Len(km_X)
        /\ \A i \in 1..Len(km_X) : km_pred[i] = km_labels[i]

\* predict has run after a fit whose last loop iteration had other labels
C5_Witness ==
    /\ km_pred # <<>>
    /\ ~km_strict
    /\ km_labels # km_hist[km_n_iter].labels

DistinctLabels(lbl) == Cardinality(Range(lbl))

\* C6: fit on zero rows, or on labels with fewer than two distinct values,
\* fails and leaves no fitted classifier.
C6_FitRejectsDegenerateTrainingSet ==
    (rf_phase # "new" /\ (Len(rf_X) = 0 \/ DistinctLabels(rf_y) < 2)) =>
        /\ rf_phase = "failed"
        /\ rf_err.raised
        /\ rf_estimators = <<>>

\* a forest fitted on rows that all carry the same label has predicted
C6_Witness ==
    /\ rf_phase = "predicted"
    /\ Len(rf_X) >= 2
    /\ DistinctLabels(rf_y) = 1
    /\ rf_pred.label = rf_y[1]

ClassIndex(label) == CHOOSE c \in 1..Len(rf_classes) : rf_classes[c] = label

\* the class most trees predict for rf_x, the lowest index among the largest
MajorityClass ==
    rf_classes[CHOOSE c \in 1..Len(rf_classes) :
        /\ \A d \in 1..Len(rf_classes) :
              TreeVotes(rf_estimators, rf_x, d) <= TreeVotes(rf_estimators, rf_x, c)
        /\ \A d \in 1..(c - 1) :
              TreeVotes(rf_estimators, rf_x, d) < TreeVotes(rf_estimators, rf_x, c)]

\* every tree puts rf_x in a leaf whose training rows have one class
LeavesPure ==
    \A t \in 1..Len(rf_estimators) :
        Cardinality({c \in 1..Len(rf_classes) : TreeValue(rf_estimators[t], rf_x)[c] > 0}) = 1

\* C7 (as amended): predict returns the class with the largest mean of the
\* trees' class probabilities, the lowest class index among equal means; when
\* every tree's leaf for the row is pure this is the class predicted by the
\* largest number of trees, the lowest class index among equal counts.
C7_PredictIsArgmaxOfMeanProbability ==
    rf_phase = "predicted" =>
        LET c == ClassIndex(rf_pred.label)
        IN /\ rf_pred.label \in Range(rf_classes)
           /\ \A d \in 1..Len(rf_classes) :
                 ForestProba(rf_estimators, rf_x, d) <= ForestProba(rf_estimators, rf_x, c)
           /\ \A d \in 1..(c - 1) :
                 ForestProba(rf_estimators, rf_x, d) < ForestProba(rf_estimators, rf_x, c)
           /\ LeavesPure => rf_pred.label = MajorityClass

\* predict returned a class other than the one most trees predict
C7_Witness ==
    /\ rf_phase = "predicted"
    /\ ~LeavesPure
    /\ rf_pred.label # MajorityClass

\* C7 as stated: predict returns the class predicted by the largest number of
\* trees, the lowest class index among equal counts
C7_AsStated == rf_phase = "predicted" => rf_pred.label = MajorityClass

\* the declared classes are 0 .. len(target_names) - 1
DeclaredClasses == 0..(ev_names - 1)

LabelsDeclared == Range(ev_true) \cup Range(ev_pred) \subseteq DeclaredClasses

\* C8: for equal-length label vectors over the declared classes the confusion
\* matrix has one row and one column per declared class, and cell (i, j) is
\* the number of samples with true class i and predicted class j.
C8_ConfusionMatrixOverDeclaredClasses ==
    (ev_cm.set /\ Len(ev_true) = Len(ev_pred) /\ LabelsDeclared) =>
        /\ ~ev_cm.error.raised
        /\ Len(ev_cm.matrix) = ev_names
        /\ \A i \in 1..ev_names : Len(ev_cm.matrix[i]) = ev_names
        /\ \A i, j \in 1..ev_names :
              ev_cm.matrix[i][j] = Count(ev_true, ev_pred, i - 1, j - 1)

\* a matrix whose second row counts the third declared class
C8_Witness ==
    /\ ev_cm.set /\ Len(ev_true) = Len(ev_pred) /\ LabelsDeclared
    /\ ev_names = 3
    /\ Len(ev_cm.matrix) = 2
    /\ ev_cm.labels[2] = 2
    /\ ev_cm.matrix[2][2] > 0

Reported == ev_report.set /\ ~ev_report.error.raised

TruePositives(c) == Cardinality({s \in 1..Len(ev_true) : ev_true[s] = c /\ ev_pred[s] = c})
FalsePositives(c) == Cardinality({s \in 1..Len(ev_true) : ev_true[s] # c /\ ev_pred[s] = c})
FalseNegatives(c) == Cardinality({s \in 1..Len(ev_true) : ev_true[s] = c /\ ev_pred[s] # c})

\* the reported value v is num / den, and is 0 when den is 0
IsRatioOrZero(v, num, den) ==
    /\ v.den > 0
    /\ IF den = 0 THEN v.num = 0 ELSE v.num * den = num * v.den

C10_ReportRejectsMismatch ==
    (ev_report.set /\ (Len(ev_true) # Len(ev_pred) \/ ~LabelsDeclared)) =>
        ev_report.error.raised

\* a report was produced although a label lies outside the declared classes
C10_Witness ==
    /\ Reported
    /\ ev_names = 2
    /\ 2 \in Range(ev_true) \cup Range(ev_pred)

\* the sum of a vector of fractions is 1
SumsToOne(values) ==
    LET den == values[1].den
    IN /\ \A f \in 1..Len(values) : values[f].den = den
       /\ SeqSum([f \in 1..Len(values) |-> values[f].num]) = den

\* C11: feature_importances_ has one value per feature, every value is
\* non-negative and the values sum to 1, also when no tree made a split.
C11_ImportancesSumToOne ==
    rf_importances.set =>
        /\ ~rf_importances.nan
        /\ Len(rf_importances.values) = 1
        /\ \A f \in 1..Len(rf_importances.values) :
              rf_importances.values[f].num >= 0 /\ rf_importances.values[f].den > 0
        /\ SumsToOne(rf_importances.values)

\* the importances of a forest of single leaves were read
C11_Witness ==
    /\ rf_importances.set
    /\ \A t \in 1..Len(rf_estimators) : rf_estimators[t].leaf
    /\ \A f \in 1..Len(rf_importances.values) : rf_importances.values[f].num = 0

\* C12: for every number of threads and every interleaving, the pass leaves
\* the centers, and with them the labels of the rows and of a further row,
\* that a single thread leaves.
C12_ThreadsDoNotChangeResult ==
    par_phase \in {"averaged", "done"} =>
        LET seq == SingleThreaded(par_X, par_centers)
        IN /\ par_labels = [i \in 1..Len(par_X) |-> ParNearest(par_X[i], par_centers)]
           /\ \A i \in 1..Len(par_X) : ParNearest(par_X[i], par_new) = ParNearest(par_X[i], seq)
           /\ par_phase = "done" => par_pred = ParNearest(par_x, seq)

\* several threads have labelled a row otherwise than a single thread would
C12_Witness ==
    /\ par_phase = "done"
    /\ par_threads > 1
    /\ par_pred # ParNearest(par_x, SingleThreaded(par_X, par_centers))

BothRunsDone == rp_run = 2 /\ rp_pc = "done"

\* C13: two runs on the same dataset with the same seeds compute the same
\* split, cluster assignments, predictions, confusion matrix and feature
\* importances, and no statement draws from a generator other than the one
\* made from its seed.
C13_RunsAreReproducible ==
    BothRunsDone =>
        /\ \A stage \in {"split", "kmeans", "predict", "confusion_matrix", "feature_importances"} :
              rp_out[1][stage] = rp_out[2][stage]
        /\ \A r \in 1..2 : \A i \in 1..Len(rp_draws[r]) :
              rp_draws[r][i].gen.source = "random_state"

\* the second run clustered a projection made with other draws of numpy's
\* global generator, the split and the classifier being the same
C13_Witness ==
    /\ BothRunsDone
    /\ rp_out[1]["split"] = rp_out[2]["split"]
    /\ rp_out[1]["predict"] = rp_out[2]["predict"]
    /\ rp_out[1]["kmeans"] # rp_out[2]["kmeans"]
    /\ \E i \in 1..Len(rp_draws[2]) :
          rp_draws[2][i].stage = "pca" /\ rp_draws[2][i].gen.source = "np.random"

\* C14: a statement that raises stops the run: the exception is the one of
\* that statement, no result of a later statement is ever computed, and no
\* step follows it.
C14_ErrorStopsTheRun ==
    /\ [](err.raised <=> pc = "failed")
    /\ [][/\ ~err.raised
          /\ err'.raised =>
                /\ err' = ValueError(pc)
                /\ calls' = calls
                /\ UNCHANGED <<splitVars, scaleVars, pcaVars, clusterVars, clfVars, evalVars>>]_vars

\* classification_report raised after the classifier had predicted; the
\* confusion matrix and the importances were never computed
C14_Witness ==
    /\ pc = "failed"
    /\ err = ValueError("classification_report")
    /\ y_pred # None
    /\ report = None /\ cm = None /\ feature_importances = None

ConstantColumns == {c \in 1..MaxScalerCols : ScaledVariance(Column(sc_X, c)) = 0}

\* C15: a fit on a matrix with a column of standard deviation 0 fails and
\* leaves no fitted scaler.
C15_FitRejectsConstantColumn ==
    (sc_phase # "new" /\ ConstantColumns # {}) =>
        /\ sc_err.raised
        /\ sc_scaler = None

\* a scaler fitted on a constant column has transformed it: the scale is 1
\* and every scaled value of the column is 0
C15_Witness ==
    /\ sc_phase = "transformed"
    /\ Len(sc_X) > 1
    /\ \E c \in ConstantColumns :
          /\ sc_scaler.scale_[c].sqrt_of = [num |-> 1, den |-> 1]
          /\ \A i \in 1..Len(sc_X) : sc_out[i][c].num = 0
    /\ ConstantColumns # 1..MaxScalerCols

InputPoints == {VecScale(km_X[i], CenterScale) : i \in 1..Len(km_X)}

DataMean == VecScale(SumOver(km_X, 1..Len(km_X)), CenterScale \div Len(km_X))

\* the clusters that the assignment step of iteration t left without rows
EmptiedAt(t) == {j \in 1..km_k : Members(km_hist[t].labels, j) = {}}

\* C16: whenever the assignment step of an iteration of fit leaves a center
\* with no rows, also when k exceeds the number of distinct rows, the center
\* that iteration hands to the next step is one of the input points.
C16_EmptyCenterIsReseeded ==
    \A t \in 1..Len(km_hist) : \A j \in EmptiedAt(t) :
        km_hist[t].centers_new[j] \in InputPoints

\* a fit with more centers than distinct rows has ended: a center owns no row
\* and is the mean of all rows, which is not an input point
C16_Witness ==
    /\ km_phase = "fitted"
    /\ km_k > Cardinality(Range(km_X))
    /\ \E j \in EmptiedAt(km_n_iter) :
          /\ Members(km_labels, j) = {}
          /\ km_centers[j] = DataMean
          /\ km_centers[j] \notin InputPoints

\* the state of the Clusterer
Lifecycle ==
    IF km_phase \in {"new", "failed"} THEN "Uninitialized"
    ELSE IF km_phase \in {"lloyd", "estep"} THEN "Fitting"
    ELSE "Fitted"

LifecycleMoves ==
    {<<"Uninitialized", "Uninitialized">>, <<"Uninitialized", "Fitting">>,
     <<"Fitting", "Fitting">>, <<"Fitting", "Fitted">>, <<"Fitted", "Fitted">>}

Predicted == km_npredict' = km_npredict + 1

\* C17: the Clusterer only moves Uninitialized -> Fitting -> Fitted; its centers
\* change only in a step that is in or enters Fitting; once Fitted, nothing
\* changes the centers or the iteration count; a call of predict, on any
\* matrix, changes neither and leaves the state of the object as it was; a
\* call before Fitted raises and returns no labels, a call once Fitted
\* returns one center index per row of its matrix.
C17_ClustererLifecycle ==
    [][/\ <<Lifecycle, Lifecycle'>> \in LifecycleMoves
       /\ km_centers' # km_centers => Lifecycle = "Fitting" \/ Lifecycle' = "Fitting"
       /\ Lifecycle = "Fitted" => UNCHANGED <<km_centers, km_n_iter, km_labels>>
       /\ Predicted =>
            /\ UNCHANGED <<km_centers, km_n_iter, km_phase, km_labels>>
            /\ Lifecycle # "Fitted" => km_last'.error = NotFittedError
            /\ Lifecycle = "Fitted" =>
                  /\ km_last'.error = NoError
                  /\ Len(km_last'.labels) = Len(km_last'.X)
                  /\ \A i \in 1..Len(km_last'.X) : km_last'.labels[i] \in 1..km_k]_vars

\* a fitted object has answered MaxPredicts calls of predict, the last one on
\* a matrix it was not fitted on, after at least two iterations of the fit
C17_Witness ==
    /\ Lifecycle = "Fitted"
    /\ km_n_iter > 1
    /\ km_npredict = MaxPredicts
    /\ km_last.error = NoError
    /\ km_last.X # km_X

\* the labels lbl are, position by position, the original labels of the rows
Paired(rows, lbl) ==
    /\ Len(lbl.values) = Len(rows)
    /\ \A i \in 1..Len(rows) : lbl.values[i] = y[rows[i]]

\* C18: after the split, the label at position i of the train (test) labels is
\* the original label of the sample at position i of the train (test) matrix;
\* scaling keeps the rows and their order; the classifier is fitted on rows and
\* labels paired that way, and the evaluator compares the prediction for each
\* test row with the original label of that row.
C18_PairingPreserved ==
    /\ SplitDone => Paired(X_train, y_train) /\ Paired(X_test, y_test)
    /\ X_train_scaled # None => X_train_scaled.rows = X_train
    /\ X_test_scaled # None => X_test_scaled.rows = X_test
    /\ clf.fitted => clf.X.rows = X_train /\ Paired(clf.X.rows, clf.y)
    /\ y_pred # None =>
          /\ y_pred.of.rows = X_test
          /\ Len(y_pred.values) = Len(X_test)
    /\ cm # None =>
          cm = ConfusionMatrix([i \in 1..Len(X_test) |-> y[y_pred.of.rows[i]]], y_pred.values)

\* the evaluator has run on a split that moved rows: the train labels are not
\* the first labels of the column, and the test rows are not in their original
\* order
C18_Witness ==
    /\ cm # None
    /\ clf.fitted
    /\ y_train.values # SubSeq(y, 1, Len(X_train))
    /\ \E i, j \in 1..Len(X_test) : i < j /\ X_test[i] > X_test[j]
    /\ Cardinality(Range(y_test.values)) > 1

====
